---- MODULE Spec2Model ----
(***************************************************************************)
(* The POST /api/aggregate handler of the aggregation server, in its two   *)
(* variants: the plain server (src/unnamed/part_001) and the server with   *)
(* console logging (src/unnamed/part_002).  One behaviour of the model is  *)
(* the processing of one request: the handler keeps no state between       *)
(* requests, and process.env is never written.                             *)
(*                                                                         *)
(* Texts (JavaScript strings) are run-length encoded: a text is a sequence *)
(* of runs [c |-> character, n |-> repetitions > 0] in which neighbouring  *)
(* runs carry different characters, so that two texts are equal exactly    *)
(* when their encodings are.                                               *)
(***************************************************************************)
EXTENDS Integers, Sequences, FiniteSets, TLC

VARIABLES
    variant,    \* which server file runs: "plain" or "logging"
    env,        \* process.env: credential variable -> "unset", "empty", "set"
    prompt,     \* req.body.prompt
    pc,         \* position of the handler
    idx,        \* the provider block the handler is at (1..4), 5 past the last
    calls,      \* the provider keys whose fetch was issued, in issue order
    resp,       \* the response of the fetch being awaited (r), or NoResp
    outcome,    \* per provider, what its call did: how it settled, and the
                \* status and body the network answered with
    results,    \* the object `results`, as its entries in insertion order
    slides,     \* pres' slides, in addSlide order
    caught,     \* what the top-level catch caught: "none", "slice", "write"
    responses   \* what was sent on res, in order

vars == <<variant, env, prompt, pc, idx, calls, resp, outcome, results, slides,
          caught, responses>>

---------------------------------------------------------------------------
(* Bounds of the inputs *)

\* length of the short sample texts
ShortLen == 2
\* how far the long sample text exceeds the truncation limit
Over == 1

(* Program constants *)

TruncLimit == 3500
TitleLimit == 100

---------------------------------------------------------------------------
(* JavaScript strings *)

Str(c, n) == IF n <= 0 THEN <<>> ELSE <<[c |-> c, n |-> n]>>

RECURSIVE StrLen(_)
StrLen(s) == IF s = <<>> THEN 0 ELSE Head(s).n + StrLen(Tail(s))

\* a + b
Concat(a, b) ==
    IF a = <<>> THEN b
    ELSE IF b = <<>> THEN a
    ELSE IF a[Len(a)].c = b[1].c
         THEN SubSeq(a, 1, Len(a) - 1)
              \o <<[c |-> b[1].c, n |-> a[Len(a)].n + b[1].n]>>
              \o Tail(b)
         ELSE a \o b

\* s.slice(0, n) for n >= 0
RECURSIVE Slice0(_, _)
Slice0(s, n) ==
    IF n <= 0 \/ s = <<>> THEN <<>>
    ELSE IF Head(s).n >= n THEN <<[c |-> Head(s).c, n |-> n]>>
    ELSE Concat(<<Head(s)>>, Slice0(Tail(s), n - Head(s).n))

\* a string literal, from its characters
RECURSIVE Lit(_)
Lit(cs) == IF cs = <<>> THEN <<>> ELSE Concat(Str(Head(cs), 1), Lit(Tail(cs)))

UpperChar(c) ==
    CASE c = "a" -> "A" [] c = "b" -> "B" [] c = "c" -> "C" [] c = "d" -> "D"
      [] c = "e" -> "E" [] c = "f" -> "F" [] c = "g" -> "G" [] c = "h" -> "H"
      [] c = "i" -> "I" [] c = "j" -> "J" [] c = "k" -> "K" [] c = "l" -> "L"
      [] c = "m" -> "M" [] c = "n" -> "N" [] c = "o" -> "O" [] c = "p" -> "P"
      [] c = "q" -> "Q" [] c = "r" -> "R" [] c = "s" -> "S" [] c = "t" -> "T"
      [] c = "u" -> "U" [] c = "v" -> "V" [] c = "w" -> "W" [] c = "x" -> "X"
      [] c = "y" -> "Y" [] c = "z" -> "Z" [] OTHER -> c

\* k.toUpperCase()
RECURSIVE ToUpperCase(_)
ToUpperCase(s) ==
    IF s = <<>> THEN <<>>
    ELSE Concat(Str(UpperChar(Head(s).c), Head(s).n), ToUpperCase(Tail(s)))

StartsWith(s, p) == Slice0(s, StrLen(p)) = p

---------------------------------------------------------------------------
(* The literals of the handler *)

ErrorPrefix == Lit(<<"E", "r", "r", "o", "r", ":", " ">>)
Ellipsis == Lit(<<"\n", ".", ".", ".">>)
Dots == Lit(<<".", ".", ".">>)
PromptLabel == Lit(<<"P", "r", "o", "m", "p", "t", ":", " ">>)
TitleText == Lit(<<"A", "I", " ", "A", "g", "g", "r", "e", "g", "a", "t", "i",
                   "o", "n", " ", "R", "e", "s", "u", "l", "t", "s">>)
PromptRequired == "prompt required"
NoKeysPlain == "No API keys configured"
NoKeysLogging == "No API keys configured. Please set at least one of: OPENAI_API_KEY, GEMINI_API_KEY, CLAUDE_API_KEY, PERPLEXITY_API_KEY"

\* The four provider blocks, in the order of the source
Providers == <<
    [key |-> Lit(<<"c", "h", "a", "t", "g", "p", "t">>),
     cred |-> "OPENAI_API_KEY", shape |-> "chat"],
    [key |-> Lit(<<"g", "e", "m", "i", "n", "i">>),
     cred |-> "GEMINI_API_KEY", shape |-> "gemini"],
    [key |-> Lit(<<"c", "l", "a", "u", "d", "e">>),
     cred |-> "CLAUDE_API_KEY", shape |-> "anthropic"],
    [key |-> Lit(<<"p", "e", "r", "p", "l", "e", "x", "i", "t", "y">>),
     cred |-> "PERPLEXITY_API_KEY", shape |-> "chat"] >>

NProviders == Len(Providers)
Creds == {Providers[i].cred : i \in 1..NProviders}

\* if (process.env.X): an unset or empty variable is falsy
Configured(i) == env[Providers[i].cred] = "set"

---------------------------------------------------------------------------
(* Values of the request and of the network *)

Undefined == [type |-> "undefined", str |-> <<>>, num |-> 0]
StringValue(s) == [type |-> "string", str |-> s, num |-> 0]
NumberValue(n) == [type |-> "number", str |-> <<>>, num |-> n]

\* Mutant of Falsy: only a missing prompt counts, as `prompt === undefined`
FalsyOnlyUndefined(v) == v.type = "undefined"

\* !prompt
Falsy(v) ==
    \/ v.type = "undefined"
    \/ v.type = "string" /\ v.str = <<>>
    \/ v.type = "number" /\ v.num = 0

\* whether v.slice is a function: of the values here, only strings have it
HasSlice(v) == v.type = "string"

PromptValues ==
    { Undefined,
      StringValue(<<>>),
      StringValue(Str("x", ShortLen)),
      StringValue(Concat(Str("x", TitleLimit), Str("y", Over))),
      NumberValue(0),
      NumberValue(7) }

SampleTexts ==
    { <<>>,
      Str("a", ShortLen),
      Str("a", TruncLimit),
      Concat(Str("a", TruncLimit - 1), Str("b", 1 + Over)) }

\* The body of an upstream response: text that is no JSON, the JSON value
\* null, or a JSON object that carries `text` at the extraction path of
\* `shape` ("error": at none of the paths the handler reads).
Unparseable == [kind |-> "unparseable", shape |-> "none", text |-> <<>>]
JsonNull == [kind |-> "null", shape |-> "none", text |-> <<>>]
JsonObject(shape, text) == [kind |-> "object", shape |-> shape, text |-> text]

Is2xx(status) == status >= 200 /\ status <= 299

Statuses == {200, 500}

BodiesOf(i, status) ==
    IF Is2xx(status)
    THEN { JsonObject(Providers[i].shape, t) : t \in SampleTexts }
         \cup { JsonObject("error", Str("m", ShortLen)), Unparseable, JsonNull }
    ELSE { JsonObject(Providers[i].shape, Str("a", ShortLen)),
           JsonObject("error", Str("m", ShortLen)), Unparseable }

NoResp == [status |-> 0, body |-> Unparseable]

FetchFailed == Lit(<<"f", "e", "t", "c", "h", " ", "f", "a", "i", "l", "e", "d">>)
SyntaxMessage == Lit(<<"U", "n", "e", "x", "p", "e", "c", "t", "e", "d", " ",
                       "t", "o", "k", "e", "n">>)
TypeMessage == Lit(<<"C", "a", "n", "n", "o", "t", " ", "r", "e", "a", "d">>)

\* JSON.stringify(j, null, 2) of a JSON object: a text in braces that holds
\* the object's payload
Stringify(j) == Concat(Str("{", 1), Concat(j.text, Str("}", 1)))

\* Mutant of ErrorText: the catch stores e.message alone
ErrorTextBare(msg) == msg

\* `Error: ${e.message}`
ErrorText(msg) == Concat(ErrorPrefix, msg)

\* j.choices?.[0]?.message?.content and its siblings: the text at the
\* provider's own path, Undefined when the path is absent
Extract(i, j) ==
    IF j.shape = Providers[i].shape THEN StringValue(j.text) ELSE Undefined

\* Mutant of ResultOf: the block checks r.ok and throws on a non-2xx status
ResultOfStatusChecked(i, r) ==
    IF ~Is2xx(r.status) THEN Concat(ErrorPrefix, Lit(<<"H", "T", "T", "P">>))
    ELSE IF r.body.kind = "unparseable" THEN Concat(ErrorPrefix, SyntaxMessage)
    ELSE IF r.body.kind = "null" THEN Concat(ErrorPrefix, TypeMessage)
    ELSE IF r.body.shape # Providers[i].shape \/ r.body.text = <<>>
         THEN Concat(Str("{", 1), Concat(r.body.text, Str("}", 1)))
    ELSE r.body.text

\* what the try block of provider i stores for the response r:
\* r.json() rejects on a body that is no JSON, reading a property of null
\* throws, and otherwise  <extracted> || JSON.stringify(j, null, 2)
ResultOf(i, r) ==
    IF r.body.kind = "unparseable" THEN ErrorText(SyntaxMessage)
    ELSE IF r.body.kind = "null" THEN ErrorText(TypeMessage)
    ELSE IF Falsy(Extract(i, r.body)) THEN Stringify(r.body)
    ELSE Extract(i, r.body).str

OutcomeOf(i, r) ==
    [kind |-> IF r.body.kind = "unparseable" THEN "parseError"
              ELSE IF r.body.kind = "null" THEN "typeError"
              ELSE IF Falsy(Extract(i, r.body)) THEN "raw"
              ELSE "text",
     status |-> r.status,
     body |-> r.body]

NoOutcome == [kind |-> "none", status |-> 0, body |-> Unparseable]
FetchError == [kind |-> "fetchError", status |-> 0, body |-> Unparseable]

---------------------------------------------------------------------------
(* The object `results` *)

Keys(obj) == {obj[n].k : n \in DOMAIN obj}

\* Mutant of ObjSet: a new key goes first
ObjSetFront(obj, k, v) ==
    IF \E n \in DOMAIN obj : obj[n].k = k
    THEN [n \in DOMAIN obj |-> IF obj[n].k = k THEN [k |-> k, v |-> v] ELSE obj[n]]
    ELSE <<[k |-> k, v |-> v]>> \o obj

\* obj[k] = v: a new key goes last, a present key keeps its place
ObjSet(obj, k, v) ==
    IF k \in Keys(obj)
    THEN [n \in DOMAIN obj |-> IF obj[n].k = k THEN [k |-> k, v |-> v] ELSE obj[n]]
    ELSE Append(obj, [k |-> k, v |-> v])

---------------------------------------------------------------------------
(* Slide assembly *)

\* Mutant of Truncate: the comparison is >= instead of >
TruncateAtLimit(content) ==
    IF StrLen(content) >= TruncLimit
    THEN Concat(Slice0(content, TruncLimit), Ellipsis)
    ELSE content

\* content.length > 3500 ? content.slice(0, 3500) + '\n...' : content
Truncate(content) ==
    IF StrLen(content) > TruncLimit
    THEN Concat(Slice0(content, TruncLimit), Ellipsis)
    ELSE content

\* `Prompt: ${prompt.slice(0, 100)}...`
Subtitle(p) == Concat(PromptLabel, Concat(Slice0(p.str, TitleLimit), Dots))

TitleSlide(p) == [kind |-> "title", heading |-> TitleText, body |-> Subtitle(p)]

\* the forEach callback
ContentSlide(e) ==
    [kind |-> "content", heading |-> ToUpperCase(e.k), body |-> Truncate(e.v)]

\* Object.entries(results).forEach(...)
ContentSlides(obj) == [n \in DOMAIN obj |-> ContentSlide(obj[n])]

\* the title slide as line 160 leaves it when prompt.slice throws: added to
\* pres with its heading, without the subtitle
BareTitleSlide == [kind |-> "title", heading |-> TitleText, body |-> <<>>]

---------------------------------------------------------------------------
(* Responses *)

ErrorResponse(status, message) == [status |-> status, ok |-> FALSE, error |-> message]
OkResponse == [status |-> 200, ok |-> TRUE, error |-> ""]

NoKeysMessage == IF variant = "plain" THEN NoKeysPlain ELSE NoKeysLogging

---------------------------------------------------------------------------
(* The handler *)

Init ==
    /\ variant \in {"plain", "logging"}
    /\ env \in [Creds -> {"unset", "empty", "set"}]
    /\ prompt \in PromptValues
    /\ pc = "start"
    /\ idx = 1
    /\ calls = <<>>
    /\ resp = NoResp
    /\ outcome = [i \in 1..NProviders |-> NoOutcome]
    /\ results = <<>>
    /\ slides = <<>>
    /\ caught = "none"
    /\ responses = <<>>

\* if (!prompt) return res.status(400).json({ error: 'prompt required' })
RejectPrompt ==
    /\ pc = "start"
    /\ Falsy(prompt)
    /\ responses' = Append(responses, ErrorResponse(400, PromptRequired))
    /\ pc' = "done"
    /\ UNCHANGED <<variant, env, prompt, idx, calls, resp, outcome, results,
                   slides, caught>>

\* A truthy prompt passes the check.  The logging server then evaluates
\* prompt.slice(0, 50) before its try block: a prompt without slice throws
\* there, outside every catch of the handler.
AcceptPrompt ==
    /\ pc = "start"
    /\ ~Falsy(prompt)
    /\ pc' = IF variant = "logging" /\ ~HasSlice(prompt) THEN "thrown" ELSE "fanout"
    /\ UNCHANGED <<variant, env, prompt, idx, calls, resp, outcome, results,
                   slides, caught, responses>>

\* The async handler's promise rejected.  Express 4 drops the rejection: it
\* reaches only the process' unhandledRejection logger and res is never
\* written.
RejectionDropped ==
    /\ pc = "thrown"
    /\ pc' = "rejected"
    /\ UNCHANGED <<variant, env, prompt, idx, calls, resp, outcome, results,
                   slides, caught, responses>>

\* Express 5 passes the rejection to its default error handler, which
\* answers 500.
RejectionAnswered ==
    /\ pc = "thrown"
    /\ responses' = Append(responses, ErrorResponse(500, "framework"))
    /\ pc' = "done"
    /\ UNCHANGED <<variant, env, prompt, idx, calls, resp, outcome, results,
                   slides, caught>>

\* if (process.env.X) is false: the block is skipped
SkipProvider ==
    /\ pc = "fanout"
    /\ idx <= NProviders
    /\ ~Configured(idx)
    /\ idx' = idx + 1
    /\ UNCHANGED <<variant, env, prompt, pc, calls, resp, outcome, results,
                   slides, caught, responses>>

\* Mutant of CallProvider: the calls of all remaining configured providers
\* are issued at once, before any of them is awaited
CallAllProviders ==
    /\ pc = "fanout"
    /\ idx <= NProviders
    /\ Configured(idx)
    /\ calls' = calls \o [n \in 1..Len(SelectSeq(<<1, 2, 3, 4>>, LAMBDA i : i >= idx /\ Configured(i)))
                             |-> Providers[SelectSeq(<<1, 2, 3, 4>>, LAMBDA i : i >= idx /\ Configured(i))[n]].key]
    /\ pc' = "fetch"
    /\ UNCHANGED <<variant, env, prompt, idx, resp, outcome, results, slides,
                   caught, responses>>

\* const r = await fetch(...): the call is issued and the handler suspends
CallProvider ==
    /\ pc = "fanout"
    /\ idx <= NProviders
    /\ Configured(idx)
    /\ calls' = Append(calls, Providers[idx].key)
    /\ pc' = "fetch"
    /\ UNCHANGED <<variant, env, prompt, idx, resp, outcome, results, slides,
                   caught, responses>>

\* Mutant of FetchRejects: the block has no catch that stores a result
FetchRejectsNoEntry ==
    /\ pc = "fetch"
    /\ outcome' = [outcome EXCEPT ![idx] = FetchError]
    /\ idx' = idx + 1
    /\ pc' = "fanout"
    /\ UNCHANGED <<variant, env, prompt, calls, resp, results, slides, caught,
                   responses>>

\* fetch rejects (network error): catch (e) { results.k = `Error: ...` }
FetchRejects ==
    /\ pc = "fetch"
    /\ results' = ObjSet(results, Providers[idx].key, ErrorText(FetchFailed))
    /\ outcome' = [outcome EXCEPT ![idx] = FetchError]
    /\ idx' = idx + 1
    /\ pc' = "fanout"
    /\ UNCHANGED <<variant, env, prompt, calls, resp, slides, caught, responses>>

\* Mutant of FetchResolves: r.json() is not awaited, the handler goes on to
\* the next block with the provider's result still pending
FetchResolvesNoAwait ==
    /\ pc = "fetch"
    /\ idx' = idx + 1
    /\ pc' = "fanout"
    /\ UNCHANGED <<variant, env, prompt, calls, resp, outcome, results, slides,
                   caught, responses>>

\* fetch resolves with a response of any status; const j = await r.json()
FetchResolves ==
    /\ pc = "fetch"
    /\ \E st \in Statuses : \E b \in BodiesOf(idx, st) :
           resp' = [status |-> st, body |-> b]
    /\ pc' = "json"
    /\ UNCHANGED <<variant, env, prompt, idx, calls, outcome, results, slides,
                   caught, responses>>

\* r.json() settles; the rest of the try block, or its catch, stores the
\* provider's result
JsonSettles ==
    /\ pc = "json"
    /\ results' = ObjSet(results, Providers[idx].key, ResultOf(idx, resp))
    /\ outcome' = [outcome EXCEPT ![idx] = OutcomeOf(idx, resp)]
    /\ resp' = NoResp
    /\ idx' = idx + 1
    /\ pc' = "fanout"
    /\ UNCHANGED <<variant, env, prompt, calls, slides, caught, responses>>

\* Mutant of CheckResults: the empty mapping is not checked for
CheckResultsNoGuard ==
    /\ pc = "fanout"
    /\ idx > NProviders
    /\ pc' = "assemble"
    /\ UNCHANGED <<variant, env, prompt, idx, calls, resp, outcome, results,
                   slides, caught, responses>>

\* if (Object.keys(results).length === 0) return res.status(400).json(...)
CheckResults ==
    /\ pc = "fanout"
    /\ idx > NProviders
    /\ IF Keys(results) = {}
       THEN /\ responses' = Append(responses, ErrorResponse(400, NoKeysMessage))
            /\ pc' = "done"
       ELSE /\ pc' = "assemble"
            /\ UNCHANGED responses
    /\ UNCHANGED <<variant, env, prompt, idx, calls, resp, outcome, results,
                   slides, caught>>

\* new PptxGenJS() up to  await pres.write(...).  prompt.slice throws for a
\* prompt without slice: the title slide is already added, the top-level
\* catch answers 500.
Assemble ==
    /\ pc = "assemble"
    /\ IF HasSlice(prompt)
       THEN /\ slides' = <<TitleSlide(prompt)>> \o ContentSlides(results)
            /\ pc' = "write"
            /\ UNCHANGED <<caught, responses>>
       ELSE /\ slides' = <<BareTitleSlide>>
            /\ caught' = "slice"
            /\ responses' = Append(responses, ErrorResponse(500, "slice"))
            /\ pc' = "done"
    /\ UNCHANGED <<variant, env, prompt, idx, calls, resp, outcome, results>>

\* pres.write resolves: res.json({ ok: true, pptx, fileName })
WriteResolves ==
    /\ pc = "write"
    /\ responses' = Append(responses, OkResponse)
    /\ pc' = "done"
    /\ UNCHANGED <<variant, env, prompt, idx, calls, resp, outcome, results,
                   slides, caught>>

\* pres.write rejects: the top-level catch answers 500
WriteRejects ==
    /\ pc = "write"
    /\ caught' = "write"
    /\ responses' = Append(responses, ErrorResponse(500, "write"))
    /\ pc' = "done"
    /\ UNCHANGED <<variant, env, prompt, idx, calls, resp, outcome, results,
                   slides>>

Next ==
    \/ RejectPrompt
    \/ AcceptPrompt
    \/ RejectionDropped
    \/ RejectionAnswered
    \/ SkipProvider
    \/ CallProvider
    \/ FetchRejects
    \/ FetchResolves
    \/ JsonSettles
    \/ CheckResults
    \/ Assemble
    \/ WriteResolves
    \/ WriteRejects

Spec == Init /\ [][Next]_vars

TypeOK ==
    /\ pc \in {"start", "thrown", "rejected", "fanout", "fetch", "json",
               "assemble", "write", "done"}
    /\ idx \in 1..(NProviders + 1)
    /\ caught \in {"none", "slice", "write"}

---------------------------------------------------------------------------
(* Vocabulary of the properties *)

\* the provider blocks whose credential is set to a non-empty value, in the
\* order of the source
CredSet(i) == env[Providers[i].cred] = "set"
S == {i \in 1..NProviders : CredSet(i)}
SOrder == SelectSeq(<<1, 2, 3, 4>>, CredSet)

PromptMissing ==
    \/ prompt.type = "undefined"
    \/ prompt.type = "string" /\ StrLen(prompt.str) = 0
    \/ prompt.type = "number" /\ prompt.num = 0
PromptNonEmptyString == prompt.type = "string" /\ StrLen(prompt.str) > 0

HasKey(k) == \E n \in DOMAIN results : results[n].k = k
ValueOf(k) == results[CHOOSE n \in DOMAIN results : results[n].k = k].v

Threw(i) == outcome[i].kind \in {"fetchError", "parseError", "typeError"}
Settled(i) == outcome[i].kind # "none"
Sent(status) == \E n \in DOMAIN responses : responses[n].status = status
AfterFanOut == pc = "fanout" /\ idx > NProviders
AssemblyBegun == pc \in {"assemble", "write"} \/ slides # <<>>

Headings == <<
    Lit(<<"C", "H", "A", "T", "G", "P", "T">>),
    Lit(<<"G", "E", "M", "I", "N", "I">>),
    Lit(<<"C", "L", "A", "U", "D", "E">>),
    Lit(<<"P", "E", "R", "P", "L", "E", "X", "I", "T", "Y">>) >>

---------------------------------------------------------------------------
(* C1: a request whose prompt is missing or falsy is answered 400 'prompt
   required' and nothing else, and no provider call is ever issued for it,
   whatever credentials are set. *)
C1_MissingPromptRejected ==
    PromptMissing =>
        /\ calls = <<>>
        /\ results = <<>>
        /\ pc \in {"start", "done"}
        /\ pc = "start" => responses = <<>>
        /\ pc = "done" =>
               responses = <<[status |-> 400, ok |-> FALSE, error |-> "prompt required"]>>

C1_Witness ==
    /\ prompt.type = "string" /\ prompt.str = <<>>
    /\ S = 1..NProviders
    /\ pc = "done"
    /\ Sent(400)

(* C2: with a non-empty prompt string and no credential set, the handler
   answers 400 'No API keys configured...', issues no call and never starts
   document assembly; and in every request, document assembly begins only
   with a non-empty result mapping. *)
C2_NoCredentialsShortCircuit ==
    /\ (PromptNonEmptyString /\ S = {}) =>
           /\ calls = <<>>
           /\ slides = <<>>
           /\ pc \in {"start", "fanout", "done"}
           /\ pc = "done" =>
                  /\ Len(responses) = 1
                  /\ responses[1].status = 400
                  /\ responses[1].error \in {NoKeysPlain, NoKeysLogging}
           /\ pc # "done" => responses = <<>>
    /\ AssemblyBegun => results # <<>>

C2_Witness ==
    /\ PromptNonEmptyString
    /\ S = {}
    /\ \E c \in Creds : env[c] = "empty"
    /\ pc = "done"
    /\ Sent(400)

(* C3: at the point after the fan-out, the key set of the result mapping is
   exactly the set of providers whose credential is set, whatever each
   provider's call did (text, missing text field, fetch error, unparseable
   body). *)
C3_KeysAreConfiguredProviders ==
    (AfterFanOut \/ AssemblyBegun \/ Sent(200)) =>
        /\ Keys(results) = {Providers[i].key : i \in S}
        /\ Len(results) = Cardinality(S)

C3_Witness ==
    /\ AfterFanOut
    /\ S = {1, 2, 4}
    /\ env["CLAUDE_API_KEY"] = "unset"
    /\ outcome[1].kind = "raw"
    /\ outcome[2].kind = "fetchError"
    /\ outcome[4].kind = "parseError"

(* C4: when a provider's call throws (fetch rejects, or the body cannot be
   parsed), its result begins with "Error: "; every other attempted provider
   still has its own result in the mapping; and the request is answered 200,
   the only 500 being one that slide assembly or encoding raised itself. *)
C4_ThrownCallIsolated ==
    \A i \in 1..NProviders :
        Threw(i) =>
            /\ HasKey(Providers[i].key)
            /\ StartsWith(ValueOf(Providers[i].key), ErrorPrefix)
            /\ \A q \in 1..NProviders :
                   Settled(q) =>
                       /\ HasKey(Providers[q].key)
                       /\ outcome[q].kind = "text" =>
                              ValueOf(Providers[q].key) = outcome[q].body.text
                       /\ outcome[q].kind = "raw" =>
                              /\ Slice0(ValueOf(Providers[q].key), 1) = Str("{", 1)
                              /\ StrLen(ValueOf(Providers[q].key))
                                     = StrLen(outcome[q].body.text) + 2
            /\ pc = "done" =>
                   /\ Len(responses) = 1
                   /\ caught = "none" => responses[1].status = 200
                   /\ responses[1].status # 200 =>
                          responses[1].status = 500 /\ caught # "none"

C4_Witness ==
    /\ S = {1, 2, 3}
    /\ outcome[1].kind = "text"
    /\ outcome[2].kind = "fetchError"
    /\ outcome[3].kind = "parseError"
    /\ pc = "done"
    /\ Sent(200)

(* C5 as stated: when an attempted provider answers with a non-2xx status,
   its result text is "Error: " followed by a failure message. *)
C5_NonOkIsErrorText ==
    \A i \in 1..NProviders :
        (Settled(i) /\ outcome[i].kind # "fetchError" /\ ~Is2xx(outcome[i].status)) =>
            /\ HasKey(Providers[i].key)
            /\ StartsWith(ValueOf(Providers[i].key), ErrorPrefix)

(* C5 amended: the handler never reads the status.  The result of a call
   that answered non-2xx is "Error: "-prefixed exactly when the body cannot
   be parsed (or is null); a JSON body with a non-empty text at the
   provider's path yields that text, and any other JSON body yields the
   pretty-printed body, which begins with "{" and not with "Error: ". *)
C5_NonOkBodyDecides ==
    \A i \in 1..NProviders :
        (Settled(i) /\ outcome[i].kind # "fetchError" /\ ~Is2xx(outcome[i].status)) =>
            /\ HasKey(Providers[i].key)
            /\ outcome[i].body.kind \in {"unparseable", "null"} =>
                   StartsWith(ValueOf(Providers[i].key), ErrorPrefix)
            /\ (outcome[i].body.kind = "object"
                  /\ outcome[i].body.shape = Providers[i].shape
                  /\ StrLen(outcome[i].body.text) > 0) =>
                   ValueOf(Providers[i].key) = outcome[i].body.text
            /\ (outcome[i].body.kind = "object"
                  /\ (outcome[i].body.shape # Providers[i].shape
                        \/ StrLen(outcome[i].body.text) = 0)) =>
                   /\ Slice0(ValueOf(Providers[i].key), 1) = Str("{", 1)
                   /\ ~StartsWith(ValueOf(Providers[i].key), ErrorPrefix)

C5_Witness ==
    /\ Settled(2)
    /\ outcome[2].status = 500
    /\ outcome[2].body.kind = "object"
    /\ outcome[2].body.shape = "error"
    /\ HasKey(Providers[2].key)
    /\ pc = "done"
    /\ Sent(200)

(* C6 as stated: the calls of one request are launched without waiting on
   each other, so while a call is unsettled every configured provider's call
   has been issued. *)
C6_CallsLaunchedTogether ==
    pc \in {"fetch", "json"} => \A i \in S : \E n \in DOMAIN calls : calls[n] = Providers[i].key

(* C6 amended: the calls of one request are issued one at a time, in the
   order chatgpt, gemini, claude, perplexity: a call is issued only after
   every earlier configured provider's result is stored, so an unsettled
   call holds back the call of every later provider. *)
C6_CallsOneAtATime ==
    /\ \A n \in DOMAIN calls :
           /\ n <= Len(SOrder)
           /\ calls[n] = Providers[SOrder[n]].key
           /\ n < Len(calls) => HasKey(calls[n])
    /\ pc \in {"fetch", "json"} =>
           /\ calls # <<>>
           /\ calls[Len(calls)] = Providers[idx].key
           /\ ~HasKey(Providers[idx].key)
           /\ \A i \in S : i > idx => \A n \in DOMAIN calls : calls[n] # Providers[i].key
    /\ pc \notin {"fetch", "json"} => \A n \in DOMAIN calls : HasKey(calls[n])

C6_Witness ==
    /\ S = 1..NProviders
    /\ pc = "fetch"
    /\ Len(calls) = 2
    /\ Len(results) = 1

(* C7: the handler never builds the document or sends 200 while an attempted
   call is unsettled: when slide assembly starts, every configured provider
   has reached a terminal outcome and its result is stored. *)
C7_AllSettledBeforeAssembly ==
    (AssemblyBegun \/ Sent(200)) =>
        /\ pc \notin {"fetch", "json"}
        /\ \A i \in S : Settled(i) /\ HasKey(Providers[i].key)
        /\ \A n \in DOMAIN calls : HasKey(calls[n])
        /\ Len(calls) = Cardinality(S)

C7_Witness ==
    /\ pc = "write"
    /\ S = {1, 3, 4}
    /\ outcome[1].kind = "fetchError"
    /\ outcome[3].kind = "text"
    /\ outcome[4].kind = "raw"

(* C8: a request answered 200 has 1 + |S| slides: the title slide first,
   then one content slide per configured provider, in the order chatgpt,
   gemini, claude, perplexity restricted to S, each headed by the provider's
   identifier in upper case. *)
C8_SlideSequence ==
    (pc = "write" \/ Sent(200)) =>
        /\ Len(slides) = 1 + Cardinality(S)
        /\ slides[1].kind = "title"
        /\ \A n \in 1..Len(SOrder) :
               /\ slides[n + 1].kind = "content"
               /\ slides[n + 1].heading = Headings[SOrder[n]]
               /\ results[n].k = Providers[SOrder[n]].key

C8_Witness ==
    /\ Sent(200)
    /\ S = {2, 4}
    /\ Len(slides) = 3
    /\ outcome[2].kind = "text"
    /\ outcome[4].kind = "fetchError"

(* C9: the body of a content slide is the provider's result text verbatim
   when its length is at most 3500 (3500 included), and its first 3500
   characters followed by "\n..." when it is longer. *)
C9_Truncation ==
    (pc = "write" \/ Sent(200)) =>
        \A n \in DOMAIN results :
            /\ StrLen(results[n].v) <= 3500 => slides[n + 1].body = results[n].v
            /\ StrLen(results[n].v) > 3500 =>
                   /\ StrLen(slides[n + 1].body) = 3504
                   /\ Slice0(slides[n + 1].body, 3500) = Slice0(results[n].v, 3500)
                   /\ slides[n + 1].body =
                          Concat(Slice0(results[n].v, 3500),
                                 Lit(<<"\n", ".", ".", ".">>))

C9_Witness ==
    /\ Sent(200)
    /\ Len(results) = 2
    /\ StrLen(results[1].v) = 3500
    /\ StrLen(results[2].v) > 3500
    /\ StrLen(slides[2].body) = 3500
    /\ StrLen(slides[3].body) = 3504

(* C10: every request is answered at most once, and exactly once when the
   handler has run to its end with every attempted call settled; the
   response is 400 (prompt missing), 400 (no credentials), 200 (document
   produced) or 500 (exception caught during assembly or encoding); after a
   400 or 500 no 200 is sent. *)
C10_AnsweredExactlyOnce ==
    /\ Len(responses) <= 1
    /\ pc \in {"done", "rejected"} => Len(responses) = 1
    /\ \A n \in DOMAIN responses :
           \/ responses[n] = ErrorResponse(400, PromptRequired)
           \/ responses[n] = ErrorResponse(400, NoKeysMessage)
           \/ responses[n] = OkResponse
           \/ responses[n].status = 500 /\ caught # "none"

====
